---- MODULE Spec2Model ----
(***************************************************************************)
(* Conversational search front-end (keyhoney/jupt).                        *)
(*                                                                         *)
(*   Response Relay   functions/api/search.ts  onRequestPost               *)
(*   Stream Assembler App component            handleSearch, startNewChat, *)
(*                                             loadSession                 *)
(*                                                                         *)
(* A JavaScript string is a sequence of characters, a character is a       *)
(* TLA+ string naming it.  A byte stream is a sequence of byte names.      *)
(* JSON text is modelled with one character per JSON token: a key with its *)
(* punctuation ("type":"delta" is the character "tDelta") is one           *)
(* character, string literals are written character by character between   *)
(* two quote characters, with the newline escaped as backslash n.          *)
(***************************************************************************)
EXTENDS Integers, Sequences, FiniteSets, TLC

\* ------------------------------------------------------------------ bounds

\* Lines per NDJSON body sent to the assembler.
MaxLines == 3
\* Lines per upstream body sent to the relay.
MaxUpLines == 2
\* Citation chunks in one upstream groundingChunks array.
MaxCitations == 4
\* Submissions accepted by the App in one behaviour.
MaxCalls == 2
\* Sessions archived by the App in one behaviour.
MaxArchive == 1
\* Requests the relay handles at once.
MaxRequests == 2

\* --------------------------------------------------------------- characters

LF == "LF"
SP == "SP"
QT == "QT"
BS == "BS"
\* U+FFFD, what a TextDecoder emits for a malformed byte sequence.
REPL == "U+FFFD"

NBSP == "NBSP"
\* String.prototype.trim strips these.
IsWs(c) == c \in {SP, LF, NBSP}
\* JSON.parse skips these around a value (U+00A0 is not JSON whitespace).
IsJsonWs(c) == c \in {SP, LF}

\* ------------------------------------------------------------------ UTF-8

\* TextEncoder.encode of one character.
Utf8(c) ==
  CASE c = "eacute" -> <<"c3", "a9">>
    [] c = REPL -> <<"ef", "bf", "bd">>
    [] OTHER -> <<c>>

RECURSIVE Encode(_)
Encode(s) == IF s = <<>> THEN <<>> ELSE Utf8(Head(s)) \o Encode(Tail(s))

IsCont(b) == b \in {"a9", "bf", "bd"}
\* Continuation bytes a lead byte needs; 0 for a one-byte character.
Need(b) == CASE b = "c3" -> 1 [] b = "ef" -> 2 [] OTHER -> 0

\* The character of a complete multi-byte sequence.
CharOf(bs) ==
  CASE bs = <<"c3", "a9">> -> "eacute"
    [] bs = <<"ef", "bf", "bd">> -> REPL
    [] OTHER -> "other"

\* TextDecoder.decode(chunk, {stream: true}): `pending` is the decoder's
\* retained incomplete sequence.  Returns the characters and the new pending.
RECURSIVE DecodeFrom(_, _, _)
DecodeFrom(pending, bytes, out) ==
  IF bytes = <<>> THEN [out |-> out, pending |-> pending]
  ELSE LET b == Head(bytes) IN
    IF pending = <<>> THEN
      IF IsCont(b) THEN DecodeFrom(<<>>, Tail(bytes), Append(out, REPL))
      ELSE IF Need(b) > 0 THEN DecodeFrom(<<b>>, Tail(bytes), out)
      ELSE DecodeFrom(<<>>, Tail(bytes), Append(out, b))
    ELSE
      IF IsCont(b) THEN
        LET p == Append(pending, b) IN
          IF Len(p) = Need(p[1]) + 1
          THEN DecodeFrom(<<>>, Tail(bytes), Append(out, CharOf(p)))
          ELSE DecodeFrom(p, Tail(bytes), out)
      ELSE DecodeFrom(<<>>, bytes, Append(out, REPL))

Decode(pending, bytes) == DecodeFrom(pending, bytes, <<>>)

\* ----------------------------------------------------------------- strings

RECURSIVE Concat(_)
Concat(ss) == IF ss = <<>> THEN <<>> ELSE Head(ss) \o Concat(Tail(ss))

\* String.prototype.split("\n"): always at least one piece.
RECURSIVE SplitFrom(_, _, _)
SplitFrom(s, cur, acc) ==
  IF s = <<>> THEN Append(acc, cur)
  ELSE IF Head(s) = LF THEN SplitFrom(Tail(s), <<>>, Append(acc, cur))
  ELSE SplitFrom(Tail(s), Append(cur, Head(s)), acc)

Split(s) == SplitFrom(s, <<>>, <<>>)

RECURSIVE TrimStart(_)
TrimStart(s) == IF s # <<>> /\ IsWs(Head(s)) THEN TrimStart(Tail(s)) ELSE s

RECURSIVE TrimEnd(_)
TrimEnd(s) ==
  IF s # <<>> /\ IsWs(s[Len(s)]) THEN TrimEnd(SubSeq(s, 1, Len(s) - 1)) ELSE s

Trim(s) == TrimEnd(TrimStart(s))

\* Array.prototype.pop's remainder.
Front(s) == SubSeq(s, 1, Len(s) - 1)
Last(s) == s[Len(s)]

\* -------------------------------------------------------------------- JSON

\* One character per JSON key (with its punctuation).
TypeTokens == {"tDelta", "tSources", "tDone", "tOther"}
KeyTokens == TypeTokens \cup {"kText", "kSources", "gText", "gChunks"}
TypeOf(tok) ==
  CASE tok = "tDelta" -> "delta"
    [] tok = "tSources" -> "sources"
    [] tok = "tDone" -> "done"
    [] OTHER -> "other"

\* Titles and URIs are atoms; "tNone" is an absent (or empty) title.
Uris == {"u1", "u2", "u3"}
Titles == {"t1", "t2"}
NoTitle == "tNone"
\* The relay's title for a citation without one.
DefaultTitle == "tDefault"

ParseFail == [ok |-> FALSE, val |-> <<>>, next |-> 0]

Unescape(c) == IF c = "n" THEN LF ELSE c

\* A JSON string literal's body from position i (after the opening quote).
RECURSIVE StrBody(_, _, _)
StrBody(s, i, acc) ==
  IF i > Len(s) THEN ParseFail
  ELSE IF s[i] = QT THEN [ok |-> TRUE, val |-> acc, next |-> i + 1]
  ELSE IF s[i] = BS THEN
    IF i + 1 <= Len(s) /\ s[i + 1] \in {"n", QT, BS}
    THEN StrBody(s, i + 2, Append(acc, Unescape(s[i + 1])))
    ELSE ParseFail
  ELSE IF s[i] = LF \/ s[i] \in KeyTokens THEN ParseFail
  ELSE StrBody(s, i + 1, Append(acc, s[i]))

ParseStr(s, i) ==
  IF i <= Len(s) /\ s[i] = QT THEN StrBody(s, i + 1, <<>>) ELSE ParseFail

\* One array element at position i: a citation chunk without `web`, or a
\* title (possibly absent) followed by a URI.
ParseItem(s, i) ==
  IF i <= Len(s) /\ s[i] = "noweb"
  THEN [ok |-> TRUE, val |-> [web |-> FALSE, title |-> NoTitle, uri |-> "none"],
        next |-> i + 1]
  ELSE IF i + 1 <= Len(s) /\ s[i] \in Titles \cup {NoTitle, DefaultTitle}
          /\ s[i + 1] \in Uris
  THEN [ok |-> TRUE, val |-> [web |-> TRUE, title |-> s[i], uri |-> s[i + 1]],
        next |-> i + 2]
  ELSE ParseFail

RECURSIVE ArrRest(_, _, _)
ArrRest(s, i, acc) ==
  LET it == ParseItem(s, i) IN
    IF ~it.ok THEN ParseFail
    ELSE IF it.next > Len(s) THEN ParseFail
    ELSE IF s[it.next] = "]"
      THEN [ok |-> TRUE, val |-> Append(acc, it.val), next |-> it.next + 1]
    ELSE IF s[it.next] = "," THEN ArrRest(s, it.next + 1, Append(acc, it.val))
    ELSE ParseFail

ParseArr(s, i) ==
  IF ~(i + 1 <= Len(s) /\ s[i] = "[") THEN ParseFail
  ELSE IF s[i + 1] = "]" THEN [ok |-> TRUE, val |-> <<>>, next |-> i + 2]
  ELSE ArrRest(s, i + 1, <<>>)

\* JSON.parse skips whitespace around the value.
RECURSIVE JsonTrimStart(_)
JsonTrimStart(s) ==
  IF s # <<>> /\ IsJsonWs(Head(s)) THEN JsonTrimStart(Tail(s)) ELSE s

RECURSIVE JsonTrimEnd(_)
JsonTrimEnd(s) ==
  IF s # <<>> /\ IsJsonWs(s[Len(s)]) THEN JsonTrimEnd(Front(s)) ELSE s

JsonTrim(s) == JsonTrimEnd(JsonTrimStart(s))

\* The optional fields `key1 string` and `key2 array` from position i up to
\* the closing brace, which must end the text.
ParseFields(s, i, key1, key2) ==
  LET hasT == i <= Len(s) /\ s[i] = key1
      t == IF hasT THEN ParseStr(s, i + 1) ELSE [ok |-> TRUE, val |-> <<>>, next |-> i]
      j == t.next
      hasA == t.ok /\ j <= Len(s) /\ s[j] = key2
      a == IF hasA THEN ParseArr(s, j + 1) ELSE [ok |-> TRUE, val |-> <<>>, next |-> j]
  IN [ok |-> t.ok /\ a.ok /\ a.next = Len(s) /\ s[a.next] = "}",
      hasText |-> hasT, text |-> t.val, hasList |-> hasA, list |-> a.val]

NoEvent ==
  [ok |-> FALSE, type |-> "none", hasText |-> FALSE, text |-> <<>>,
   hasSources |-> FALSE, sources |-> <<>>]

\* JSON.parse of one NDJSON line as the assembler reads it:
\* { type, text?, sources? }.  ok = FALSE is a SyntaxError.
ParseEvent(str) ==
  LET s == JsonTrim(str) IN
    IF ~(Len(s) >= 3 /\ s[1] = "{" /\ s[2] \in TypeTokens) THEN NoEvent
    ELSE LET f == ParseFields(s, 3, "kText", "kSources") IN
      IF ~f.ok THEN NoEvent
      ELSE [ok |-> TRUE, type |-> TypeOf(s[2]), hasText |-> f.hasText,
            text |-> f.text, hasSources |-> f.hasList, sources |-> f.list]

NoData == [ok |-> FALSE, hasText |-> FALSE, text |-> <<>>, chunks |-> <<>>]

\* JSON.parse of one upstream document as the relay reads it:
\* candidates[0].content.parts[0].text and
\* candidates[0].groundingMetadata.groundingChunks, each optional.
ParseUpstream(str) ==
  LET s == JsonTrim(str) IN
    IF ~(Len(s) >= 2 /\ s[1] = "{") THEN NoData
    ELSE LET f == ParseFields(s, 2, "gText", "gChunks") IN
      IF ~f.ok THEN NoData
      ELSE [ok |-> TRUE, hasText |-> f.hasText, text |-> f.text, chunks |-> f.list]

RECURSIVE Escape(_)
Escape(s) ==
  IF s = <<>> THEN <<>>
  ELSE (CASE Head(s) = LF -> <<BS, "n">>
          [] Head(s) = QT -> <<BS, QT>>
          [] Head(s) = BS -> <<BS, BS>>
          [] OTHER -> <<Head(s)>>) \o Escape(Tail(s))

Quote(s) == <<QT>> \o Escape(s) \o <<QT>>

RECURSIVE Items(_)
Items(list) ==
  IF list = <<>> THEN <<>>
  ELSE (IF list[1].web THEN <<list[1].title, list[1].uri>> ELSE <<"noweb">>)
       \o (IF Len(list) > 1 THEN <<",">> ELSE <<>>) \o Items(Tail(list))

Arr(list) == <<"[">> \o Items(list) \o <<"]">>

\* JSON.stringify of the relay's three events.
StringifyDelta(text) == <<"{", "tDelta", "kText">> \o Quote(text) \o <<"}">>
StringifySources(sources) == <<"{", "tSources", "kSources">> \o Arr(sources) \o <<"}">>
StringifyDone == <<"{", "tDone", "}">>

\* ------------------------------------------------------------ App: messages

VARIABLES
  messages,           \* useState<Message[]>: the conversation
  isLoading,          \* useState(false): the pending gate
  history,            \* useState<ChatSession[]>: archived sessions, newest first
  query,              \* useState(''): the input box
  isWebSearchEnabled, \* useState(false)
  calls,              \* the invocations of handleSearch that passed its guard
  relay               \* the relay's invocations of onRequestPost

\* Message: sources and isWebSearch are optional fields.
UserMessage(content) ==
  [role |-> "user", content |-> content, hasSources |-> FALSE, sources |-> <<>>,
   isWebSearch |-> "unset"]

placeholder ==
  [role |-> "model", content |-> <<>>, hasSources |-> FALSE, sources |-> <<>>,
   isWebSearch |-> "false"]

\* The value of prev[prev.length - 1] on an empty array.
Undefined ==
  [role |-> "undefined", content |-> <<>>, hasSources |-> FALSE, sources |-> <<>>,
   isWebSearch |-> "unset"]

BoolStr(b) == IF b THEN "true" ELSE "false"

\* prev[prev.length - 1]
LastOf(prev) == IF prev = <<>> THEN Undefined ELSE prev[Len(prev)]
\* prev.slice(0, -1)
ButLast(prev) == IF prev = <<>> THEN <<>> ELSE Front(prev)

\* The delta updater with the operands of the concatenation exchanged.
ApplyDeltaPrepending(prev, text) ==
  LET next == ButLast(prev)
      last == LastOf(prev)
  IN IF last.role = "model"
     THEN Append(next, [last EXCEPT !.content = text \o last.content])
     ELSE Append(next, last)

\* The updater of a delta event.
ApplyDelta(prev, text) ==
  LET next == ButLast(prev)
      last == LastOf(prev)
  IN IF last.role = "model"
     THEN Append(next, [last EXCEPT !.content = last.content \o text])
     ELSE Append(next, last)

\* The updater of the done event.
ApplyDone(prev, sources) ==
  LET next == ButLast(prev)
      last == LastOf(prev)
  IN IF last.role = "model"
     THEN Append(next, [last EXCEPT !.hasSources = TRUE, !.sources = sources])
     ELSE Append(next, last)

\* The read loop's body with a sources event appended to the local list
\* instead of replacing it.
DispatchLineMerging(st, data) ==
  LET logged == [st EXCEPT !.log = Append(st.log, data)] IN
  IF data.type = "delta" /\ data.hasText
    THEN [logged EXCEPT !.messages = ApplyDelta(st.messages, data.text)]
  ELSE IF data.type = "sources" /\ data.hasSources
    THEN [logged EXCEPT !.sources = st.sources \o data.sources]
  ELSE IF data.type = "done"
    THEN [logged EXCEPT !.messages = ApplyDone(st.messages, st.sources)]
  ELSE st

\* The read loop's body with a sources event written to the last message at
\* once, as well as kept in the local list.
DispatchLineAttaching(st, data) ==
  LET logged == [st EXCEPT !.log = Append(st.log, data)] IN
  IF data.type = "delta" /\ data.hasText
    THEN [logged EXCEPT !.messages = ApplyDelta(st.messages, data.text)]
  ELSE IF data.type = "sources" /\ data.hasSources
    THEN [logged EXCEPT !.sources = data.sources,
                        !.messages = ApplyDone(st.messages, data.sources)]
  ELSE IF data.type = "done"
    THEN [logged EXCEPT !.messages = ApplyDone(st.messages, st.sources)]
  ELSE st

\* The body of the read loop for one parsed line: st holds the conversation
\* and the local `sources`; st.log records the events dispatched, in order.
DispatchLine(st, data) ==
  LET logged == [st EXCEPT !.log = Append(st.log, data)] IN
  IF data.type = "delta" /\ data.hasText
    THEN [logged EXCEPT !.messages = ApplyDelta(st.messages, data.text)]
  ELSE IF data.type = "sources" /\ data.hasSources
    THEN [logged EXCEPT !.sources = data.sources]
  ELSE IF data.type = "done"
    THEN [logged EXCEPT !.messages = ApplyDone(st.messages, st.sources)]
  ELSE st

\* A loop that is left at the first line that does not parse.
RECURSIVE ProcessLinesStopping(_, _)
ProcessLinesStopping(lines, st) ==
  IF lines = <<>> THEN st
  ELSE LET trimmed == Trim(Head(lines))
           data == ParseEvent(trimmed)
       IN IF trimmed = <<>> THEN ProcessLinesStopping(Tail(lines), st)
          ELSE IF ~data.ok THEN st
          ELSE ProcessLinesStopping(Tail(lines), DispatchLine(st, data))

\* for (const line of lines) { trim; skip blank; try JSON.parse; dispatch }
RECURSIVE ProcessLines(_, _)
ProcessLines(lines, st) ==
  IF lines = <<>> THEN st
  ELSE LET trimmed == Trim(Head(lines))
           data == ParseEvent(trimmed)
       IN IF trimmed = <<>> \/ ~data.ok
          THEN ProcessLines(Tail(lines), st)
          ELSE ProcessLines(Tail(lines), DispatchLine(st, data))

\* The decoder of the read loop: one TextDecoder for the whole body.
DecodeChunk(pending, value) == Decode(pending, value)

\* A loop that drops the unfinished line instead of keeping it.
RetainedNothing(lines) == <<>>

\* What the loop keeps of the text after splitting it on line breaks.
Retained(lines) == Last(lines)

\* One turn of the read loop on a chunk `value`; r is the loop's state
\* (decoder, buffer, sources) with the conversation.
ReadTurn(r, value) ==
  LET dec == DecodeChunk(r.pending, value)
      lines == Split(r.buffer \o dec.out)
      st == ProcessLines(Front(lines),
                         [messages |-> r.messages, sources |-> r.sources, log |-> r.log])
  IN [pending |-> dec.pending, buffer |-> Retained(lines),
      sources |-> st.sources, messages |-> st.messages, log |-> st.log]

\* An end of the loop that drops the retained fragment unread.
TailDropped(r) == r

\* After the loop: the retained fragment, parsed untrimmed; three separate
\* `if`s instead of the loop's else-if chain.
TailTurn(r) ==
  LET data == ParseEvent(r.buffer)
      isDelta == data.type = "delta" /\ data.hasText
      isSources == data.type = "sources" /\ data.hasSources
      isDone == data.type = "done"
      m1 == IF isDelta THEN ApplyDelta(r.messages, data.text) ELSE r.messages
      s2 == IF isSources THEN data.sources ELSE r.sources
      m3 == IF isDone THEN ApplyDone(m1, s2) ELSE m1
  IN IF Trim(r.buffer) = <<>> \/ ~data.ok THEN r
     ELSE [r EXCEPT !.messages = m3, !.sources = s2,
                    !.log = IF isDelta \/ isSources \/ isDone
                            THEN Append(r.log, data) ELSE r.log]

\* ---------------------------------------------------------- App: responses

\* A case-sensitive test: the words as they are.
SameCase(w) == w

\* An error text is a sequence of words; the words the classification looks
\* for are words of their own, in several spellings.
Lower(w) ==
  CASE w = "Quota" -> "quota"
    [] w = "RATE LIMIT" -> "rate limit"
    [] OTHER -> w

\* /429|quota|rate limit|rate-limit/i.test(msg)
IsQuotaOrRateLimit(msg) ==
  \E i \in DOMAIN msg : Lower(msg[i]) \in {"429", "quota", "rate limit", "rate-limit"}

\* The two fixed fallback texts and the fixed answer for a missing `answer`.
QuotaMessage == <<"quotaMessage">>
GenericMessage == <<"genericMessage">>
MissingAnswer == <<"missingAnswer">>

\* new Error(...) texts of handleSearch.
Message405 == <<"api not deployed">>
ServerErrorMessage(status) == <<"server error", ToString(status)>>
RequestFailedMessage(status) == <<"request failed", ToString(status)>>

\* The model message of the catch block.
FailureMessage(msg, useWebSearch) ==
  [role |-> "model",
   content |-> IF IsQuotaOrRateLimit(msg) THEN QuotaMessage ELSE GenericMessage,
   hasSources |-> FALSE, sources |-> <<>>,
   isWebSearch |-> BoolStr(useWebSearch)]

NoBody ==
  [hasError |-> FALSE, error |-> <<>>, hasAnswer |-> FALSE, answer |-> <<>>,
   hasSources |-> FALSE, sources |-> <<>>]

\* What fetch settles with: a rejection, or a response whose body is an
\* NDJSON byte stream or a text (empty, not JSON, or a JSON object).
NetworkFailure(msg) ==
  [failed |-> TRUE, errmsg |-> msg, ok |-> FALSE, status |-> 0, ndjson |-> FALSE,
   stream |-> <<>>, bodyKind |-> "empty", data |-> NoBody]

NdjsonResponse(bytes) ==
  [failed |-> FALSE, errmsg |-> <<>>, ok |-> TRUE, status |-> 200, ndjson |-> TRUE,
   stream |-> bytes, bodyKind |-> "empty", data |-> NoBody]

TextResponse(status, kind, data) ==
  [failed |-> FALSE, errmsg |-> <<>>, ok |-> status = 200, status |-> status,
   ndjson |-> FALSE, stream |-> <<>>, bodyKind |-> kind, data |-> data]

AnswerBody(answer, sources) ==
  [NoBody EXCEPT !.hasAnswer = TRUE, !.answer = answer,
                 !.hasSources = TRUE, !.sources = sources]

ErrorBody(error) == [NoBody EXCEPT !.hasError = TRUE, !.error = error]

\* ------------------------------------------------------------ App: actions

\* const searchQuery = customQuery || query
SearchQuery(customQuery) == IF customQuery # <<>> THEN customQuery ELSE query

\* An early return that looks at the query only.
AcceptedWhilePending(searchQuery) == Trim(searchQuery) # <<>>

\* The negation of handleSearch's early return.
Accepted(searchQuery) == Trim(searchQuery) # <<>> /\ ~isLoading

NewCall(searchQuery, useWebSearch) ==
  [pc |-> "fetch", searchQuery |-> searchQuery, useWebSearch |-> useWebSearch,
   useStreaming |-> ~useWebSearch,
   historyForRequest |-> [i \in DOMAIN messages |->
                            [role |-> messages[i].role, content |-> messages[i].content]],
   res |-> NetworkFailure(<<>>),
   pos |-> 0, pending |-> <<>>, buffer |-> <<>>, sources |-> <<>>, log |-> <<>>,
   split |-> FALSE,
   \* history: whether the catch block ran and with which error text; the
   \* values the call's own placeholder has had.
   thrown |-> FALSE, error |-> <<>>, mine |-> {}]

\* handleSearch up to its first await.  force is "undefined", "true" or
\* "false"; a rejected invocation returns at once.
handleSearch(customQuery, force) ==
  LET searchQuery == SearchQuery(customQuery)
      useWebSearch == IF force # "undefined" THEN force = "true" ELSE isWebSearchEnabled
  IN IF Accepted(searchQuery) /\ Len(calls) < MaxCalls
     THEN /\ messages' = Append(messages, UserMessage(searchQuery))
          /\ query' = <<>>
          /\ isLoading' = TRUE
          /\ calls' = Append(calls, NewCall(searchQuery, useWebSearch))
          /\ UNCHANGED <<relay, history, isWebSearchEnabled>>
     ELSE UNCHANGED <<relay, messages, isLoading, history, query, isWebSearchEnabled, calls>>

\* <form onSubmit={handleSearch}>
Submit == handleSearch(<<>>, "undefined")

\* The retry button is rendered under the last message when it is a model
\* message without isWebSearch and nothing is loading.
RetryOffered ==
  /\ messages # <<>>
  /\ LastOf(messages).role = "model"
  /\ LastOf(messages).isWebSearch # "true"
  /\ ~isLoading

\* onClick={() => handleSearch(undefined, messages[idx-1].content, true)};
\* with no message before it the handler throws before calling handleSearch.
Retry ==
  /\ RetryOffered
  /\ IF Len(messages) >= 2 /\ messages[Len(messages) - 1].role # "undefined"
     THEN handleSearch(messages[Len(messages) - 1].content, "true")
     ELSE UNCHANGED <<relay, messages, isLoading, history, query, isWebSearchEnabled, calls>>

\* onChange={(e) => setQuery(e.target.value)}
SetQuery(q) ==
  /\ query' = q
  /\ UNCHANGED <<relay, messages, isLoading, history, isWebSearchEnabled, calls>>

ToggleWebSearch ==
  /\ isWebSearchEnabled' = ~isWebSearchEnabled
  /\ UNCHANGED <<relay, messages, isLoading, history, query, calls>>

\* title: messages[0].content.slice(0, 40) + (length > 40 ? '...' : '')
TitleLen == 40
\* prev.slice(0, 19)
KeepSessions == 19

SessionTitle(content) ==
  IF Len(content) > TitleLen THEN SubSeq(content, 1, TitleLen) \o <<"...">> ELSE content

startNewChat ==
  /\ IF messages # <<>>
     THEN /\ messages[1].role # "undefined"
          /\ history' = <<[title |-> SessionTitle(messages[1].content),
                           messages |-> messages]>>
                        \o SubSeq(history, 1, IF Len(history) < KeepSessions
                                              THEN Len(history) ELSE KeepSessions)
     ELSE UNCHANGED history
  /\ messages' = <<>>
  /\ query' = <<>>
  /\ UNCHANGED <<relay, isLoading, isWebSearchEnabled, calls>>

loadSession(i) ==
  /\ i \in DOMAIN history
  /\ messages' = history[i].messages
  /\ UNCHANGED <<relay, isLoading, history, query, isWebSearchEnabled, calls>>

\* ------------------------------------------------- App: handleSearch, async

NotCalls == <<relay, messages, isLoading, history, query, isWebSearchEnabled>>

\* catch (error) { append the fallback message } finally { setIsLoading(false) }
\* A catch block with no `finally`: the pending state is left as it is.
CaughtHolding(c, msg, res) ==
  /\ messages' = Append(messages, FailureMessage(msg, calls[c].useWebSearch))
  /\ calls' = [calls EXCEPT ![c].pc = "done", ![c].historyForRequest = <<>>,
                            ![c].res = res,
                            ![c].thrown = TRUE, ![c].error = msg, ![c].mine = {}]
  /\ UNCHANGED <<relay, isLoading, history, query, isWebSearchEnabled>>

\* res is what fetch settled with, kept in the call's record.
Caught(c, msg, res) ==
  /\ messages' = Append(messages, FailureMessage(msg, calls[c].useWebSearch))
  /\ isLoading' = FALSE
  /\ calls' = [calls EXCEPT ![c].pc = "done", ![c].historyForRequest = <<>>,
                            ![c].res = res,
                            ![c].thrown = TRUE, ![c].error = msg, ![c].mine = {}]
  /\ UNCHANGED <<relay, history, query, isWebSearchEnabled>>

Catch(c, msg) == Caught(c, msg, calls[c].res)

\* A handler that appends the placeholder for every response that fetch
\* resolves with, before it looks at the content type.
FetchSettlesPlaceholderFirst(c, res) ==
  /\ c \in DOMAIN calls
  /\ calls[c].pc = "fetch"
  /\ IF res.failed
       THEN Caught(c, res.errmsg, res)
     ELSE /\ messages' = Append(messages, placeholder)
          /\ calls' = [calls EXCEPT
                         ![c].pc = IF calls[c].useStreaming /\ res.ndjson /\ res.ok
                                   THEN "read" ELSE "text",
                         ![c].res = res, ![c].historyForRequest = <<>>,
                         ![c].mine = {placeholder}]
          /\ UNCHANGED <<relay, isLoading, history, query, isWebSearchEnabled>>

\* `await fetch` settles with res.  On the streaming path the placeholder is
\* appended and the reader is taken, up to the first `await reader.read()`.
FetchSettles(c, res) ==
  /\ c \in DOMAIN calls
  /\ calls[c].pc = "fetch"
  /\ IF res.failed
       THEN Caught(c, res.errmsg, res)
     ELSE IF calls[c].useStreaming /\ res.ndjson /\ res.ok
       THEN /\ messages' = Append(messages, placeholder)
            /\ calls' = [calls EXCEPT ![c].pc = "read", ![c].res = res,
                                      ![c].historyForRequest = <<>>,
                                      ![c].mine = {placeholder}]
            /\ UNCHANGED <<relay, isLoading, history, query, isWebSearchEnabled>>
     ELSE /\ calls' = [calls EXCEPT ![c].pc = "text", ![c].res = res,
                                    ![c].historyForRequest = <<>>]
          /\ UNCHANGED NotCalls

LoopState(c) ==
  [pending |-> calls[c].pending, buffer |-> calls[c].buffer,
   sources |-> calls[c].sources, messages |-> messages, log |-> calls[c].log]

\* The next n bytes of the body.
Value(c, n) == SubSeq(calls[c].res.stream, calls[c].pos + 1, calls[c].pos + n)

\* A chunk of n bytes ends inside a line (history: calls[c].split records
\* that some chunk of the body did).
MidLine(c, n) ==
  /\ calls[c].pos + n < Len(calls[c].res.stream)
  /\ calls[c].res.stream[calls[c].pos + n] # LF

\* `await reader.read()` settles with the next bytes of the body, any number
\* of them.
ReadChunk(c) ==
  /\ c \in DOMAIN calls
  /\ calls[c].pc = "read"
  /\ \E n \in 1..(Len(calls[c].res.stream) - calls[c].pos) :
     \E r \in {ReadTurn(LoopState(c), Value(c, n))} :
        /\ messages' = r.messages
        /\ calls' = [calls EXCEPT ![c].pos = @ + n, ![c].pending = r.pending,
                                  ![c].buffer = r.buffer, ![c].sources = r.sources,
                                  ![c].log = r.log,
                                  ![c].mine = IF r.messages = messages THEN @
                                              ELSE @ \cup {LastOf(r.messages)},
                                  ![c].split = @ \/ MidLine(c, n)]
  /\ UNCHANGED <<relay, isLoading, history, query, isWebSearchEnabled>>

\* `await reader.read()` settles with done: the retained fragment is handled,
\* setIsLoading(false), return.
ReadDone(c) ==
  /\ c \in DOMAIN calls
  /\ calls[c].pc = "read"
  /\ calls[c].pos = Len(calls[c].res.stream)
  /\ \E r \in {TailTurn(LoopState(c))} :
        /\ messages' = r.messages
        /\ calls' = [calls EXCEPT ![c].pc = "done", ![c].sources = r.sources,
                                  ![c].log = r.log, ![c].mine = {}]
  /\ isLoading' = FALSE
  /\ UNCHANGED <<relay, history, query, isWebSearchEnabled>>

\* `await reader.read()` rejects (the transport failed mid-body).
ReadError(c) ==
  /\ c \in DOMAIN calls
  /\ calls[c].pc = "read"
  /\ Catch(c, <<"network error">>)

\* `await res.text()` settles; the rest of handleSearch runs to its end.
TextSettles(c) ==
  /\ c \in DOMAIN calls
  /\ calls[c].pc = "text"
  /\ LET res == calls[c].res
         data == IF res.bodyKind = "json" THEN res.data ELSE NoBody
     IN IF res.bodyKind = "nonjson" /\ ~res.ok
          THEN Catch(c, IF res.status = 405 THEN Message405
                        ELSE ServerErrorMessage(res.status))
        ELSE IF ~res.ok
          THEN Catch(c, IF data.hasError /\ data.error # <<>> THEN data.error
                        ELSE RequestFailedMessage(res.status))
        ELSE /\ messages' = Append(messages,
                  [role |-> "model",
                   content |-> IF data.hasAnswer THEN data.answer ELSE MissingAnswer,
                   hasSources |-> TRUE,
                   sources |-> IF data.hasSources THEN data.sources ELSE <<>>,
                   isWebSearch |-> BoolStr(calls[c].useWebSearch)])
             /\ isLoading' = FALSE
             /\ calls' = [calls EXCEPT ![c].pc = "done"]
             /\ UNCHANGED <<relay, history, query, isWebSearchEnabled>>

\* ------------------------------------------------------ App: specification

appVars == <<messages, isLoading, history, query, isWebSearchEnabled, calls>>
vars == <<messages, isLoading, history, query, isWebSearchEnabled, calls, relay>>

Source(title, uri) == [web |-> TRUE, title |-> title, uri |-> uri]

\* An NDJSON body: the lines, each ended by a line break.
RECURSIVE Lines(_)
Lines(ls) == IF ls = <<>> THEN <<>> ELSE Head(ls) \o <<LF>> \o Lines(Tail(ls))

\* What the user types.
Queries == {<<"q">>}

\* The bodies the relay streams in the App's behaviours.
AppStreams ==
  { Encode(Lines(<<StringifyDelta(<<"a">>)>>) \o StringifyDone) }

\* What fetch settles with in the App's behaviours.
AppResponses ==
  { NetworkFailure(<<"Failed to fetch">>),
    TextResponse(200, "json", AnswerBody(<<"b">>, <<Source("t1", "u1")>>)),
    TextResponse(429, "json", ErrorBody(<<"Quota", "exceeded">>)),
    TextResponse(405, "nonjson", NoBody) }
  \cup { NdjsonResponse(b) : b \in AppStreams }

Init ==
  /\ messages = <<>>
  /\ isLoading = FALSE
  /\ history = <<>>
  /\ query = <<>>
  /\ isWebSearchEnabled = FALSE
  /\ calls = <<>>
  /\ relay = <<>>

Next ==
  \/ \E q \in Queries : SetQuery(q)
  \/ ToggleWebSearch
  \/ Submit
  \/ Retry
  \/ (messages = <<>> \/ Len(history) < MaxArchive) /\ startNewChat
  \/ \E i \in 1..MaxArchive : loadSession(i)
  \/ \E c \in 1..MaxCalls :
       \/ \E res \in AppResponses : FetchSettles(c, res)
       \/ ReadChunk(c)
       \/ ReadDone(c)
       \/ ReadError(c)
       \/ TextSettles(c)

Spec == Init /\ [][Next]_vars

\* What the environment owes call c: the body of a streamed response ends,
\* in an error or normally.
BodyEnds(c) == ReadError(c) \/ ReadDone(c)

\* The App in which, for every call, fetch settles, the body of a streamed
\* response ends, and res.text() settles.
SpecLive ==
  /\ Spec
  /\ \A c \in 1..MaxCalls :
       /\ WF_vars(\E res \in AppResponses : FetchSettles(c, res))
       /\ WF_vars(BodyEnds(c))
       /\ WF_vars(TextSettles(c))

\* ------------------------------------------------ Assembler: specification

\* The lines an NDJSON body is made of in the assembler's behaviours: events
\* as the relay writes them and a truncated event.
WireLines ==
  { StringifyDelta(<<"a">>),
    StringifyDelta(<<"eacute", LF>>),
    StringifySources(<<Source("t1", "u1"), Source("t2", "u2")>>),
    StringifySources(<<Source("t1", "u3")>>),
    StringifyDone,
    <<"{", "tDelta", "kText", QT, "a">> }

RECURSIVE SeqsUpTo(_, _)
SeqsUpTo(S, n) ==
  IF n = 0 THEN {<<>>}
  ELSE LET shorter == SeqsUpTo(S, n - 1)
       IN shorter \cup {Append(q, x) : q \in shorter, x \in S}

\* The lines of a body with framing errors: a delta, a line of an unknown
\* type that carries a text, a line cut short, and done.
FramingLines ==
  { StringifyDelta(<<"a">>),
    <<"{", "tOther", "kText">> \o Quote(<<"b">>) \o <<"}">>,
    <<"{", "tDelta", "kText", QT, "a">>,
    StringifyDone }

\* Every body of at most MaxLines lines of either kind, the last one ended
\* by a line break or not.
WireStreams ==
  LET bodies == SeqsUpTo(WireLines, MaxLines) \cup SeqsUpTo(FramingLines, MaxLines)
  IN {Encode(Lines(ls)) : ls \in bodies}
     \cup {Encode(Lines(Front(ls)) \o Last(ls)) : ls \in bodies \ {<<>>}}

\* One submission, answered by a stream, with no session switch meanwhile.
InitAssembler ==
  /\ messages = <<>>
  /\ isLoading = FALSE
  /\ history = <<>>
  /\ query = <<"q">>
  /\ isWebSearchEnabled = FALSE
  /\ calls = <<>>
  /\ relay = <<>>

NextAssembler ==
  \/ Submit
  \/ \E b \in WireStreams : FetchSettles(1, NdjsonResponse(b))
  \/ ReadChunk(1)
  \/ ReadDone(1)

SpecAssembler == InitAssembler /\ [][NextAssembler]_vars

\* ------------------------------------------------- Outcomes: specification

\* The `error` texts of a relay error document.
ErrorTexts ==
  { <<"Quota", "exceeded">>, <<"RATE LIMIT">>, <<"rate-limit", "hit">>,
    <<"code", "429">>, <<"Too", "Many", "Requests">>, <<"internal">> }

\* The bodies of a response read as text: nothing usable, an answer, an
\* error document with an empty text or with one of ErrorTexts.
TextBodies ==
  { NoBody, AnswerBody(<<"b">>, <<Source("t1", "u1")>>), ErrorBody(<<>>) }
  \cup { ErrorBody(e) : e \in ErrorTexts }

Statuses == {200, 405, 429, 500}

\* What fetch settles with in the outcomes' behaviours: rejections, every
\* status with an empty body, a body that is not JSON, or a JSON body, and
\* two NDJSON bodies.
OutcomeResponses ==
  { NetworkFailure(<<"Failed to fetch">>), NetworkFailure(<<"quota">>) }
  \cup { TextResponse(st, "empty", NoBody) : st \in Statuses }
  \cup { TextResponse(st, "nonjson", NoBody) : st \in Statuses }
  \cup { TextResponse(st, "json", d) : st \in Statuses, d \in TextBodies }
  \cup { NdjsonResponse(Encode(Lines(<<StringifyDelta(<<"a">>), StringifyDone>>))),
         NdjsonResponse(Encode(Lines(<<StringifyDelta(<<"a">>)>>))) }

\* One submission with the web search on or off, ended in every way
\* handleSearch can end, with no session switch meanwhile.
InitOutcome ==
  /\ messages = <<>>
  /\ isLoading = FALSE
  /\ history = <<>>
  /\ query = <<"q">>
  /\ isWebSearchEnabled \in BOOLEAN
  /\ calls = <<>>
  /\ relay = <<>>

NextOutcome ==
  \/ Submit
  \/ \E res \in OutcomeResponses : FetchSettles(1, res)
  \/ ReadChunk(1)
  \/ ReadDone(1)
  \/ ReadError(1)
  \/ TextSettles(1)

SpecOutcome == InitOutcome /\ [][NextOutcome]_vars

\* ==================================================================== relay

\* The query taken without trimming.
UntrimmedQuery(body) == IF body.queryIsString THEN body.query ELSE <<>>

\* const query = typeof body?.query === "string" ? body.query.trim() : ""
TrimmedQuery(body) == IF body.queryIsString THEN Trim(body.query) ELSE <<>>

\* history.filter(role is user or model, content is a string)
\*        .map(m => ({ role, parts: [{ text: m.content }] })), then the query.
KeepsEntry(m) == m.role \in {"user", "model"} /\ m.contentIsString

\* m.role of an entry that is null or undefined throws a TypeError.
FilterThrows(hist) == \E i \in DOMAIN hist : hist[i].nullish
Turn(m) == [role |-> m.role, text |-> m.content]

RECURSIVE Turns(_)
Turns(hist) ==
  IF hist = <<>> THEN <<>>
  ELSE (IF KeepsEntry(Head(hist)) THEN <<Turn(Head(hist))>> ELSE <<>>)
       \o Turns(Tail(hist))

Contents(body) ==
  Append(Turns(IF body.historyIsArray THEN body.history ELSE <<>>),
         [role |-> "user", text |-> TrimmedQuery(body)])

\* Streaming decided by `stream` alone.
UseStreamingWhenAsked(body) == body.stream

\* const useStreaming = stream && !useWebSearch
UseStreaming(body) == body.stream /\ ~body.useWebSearch

\* chunks.filter(c => c.web).map(c => ({ title: c.web.title || "...", uri }))
RECURSIVE WebSources(_)
WebSources(chunks) ==
  IF chunks = <<>> THEN <<>>
  ELSE (IF Head(chunks).web
        THEN <<Source(IF Head(chunks).title = NoTitle THEN DefaultTitle
                      ELSE Head(chunks).title,
                      Head(chunks).uri)>>
        ELSE <<>>) \o WebSources(Tail(chunks))

\* arr.findIndex(t => t.uri === uri): the first index, 0 when there is none.
RECURSIVE FindIndexFrom(_, _, _)
FindIndexFrom(arr, uri, i) ==
  IF i > Len(arr) THEN 0
  ELSE IF arr[i].uri = uri THEN i
  ELSE FindIndexFrom(arr, uri, i + 1)

FindIndex(arr, uri) == FindIndexFrom(arr, uri, 1)

\* The list left as it is.
AllSources(sources) == sources

\* sources.filter((s, i, arr) => arr.findIndex(t => t.uri === s.uri) === i)
RECURSIVE UniqueFrom(_, _)
UniqueFrom(arr, i) ==
  IF i > Len(arr) THEN <<>>
  ELSE (IF FindIndex(arr, arr[i].uri) = i THEN <<arr[i]>> ELSE <<>>)
       \o UniqueFrom(arr, i + 1)

UniqueSources(sources) == UniqueFrom(sources, 1)

\* The sources list of a streamed line: the filtered and mapped chunks.
StreamSources(chunks) == WebSources(chunks)

\* What transform and flush enqueue for one parsed upstream document: a
\* delta line for a non-empty text, a sources line for a non-empty list.
Enqueued(data) ==
  (IF data.hasText /\ data.text # <<>>
   THEN <<Encode(StringifyDelta(data.text) \o <<LF>>)>> ELSE <<>>)
  \o (IF StreamSources(data.chunks) # <<>>
      THEN <<Encode(StringifySources(StreamSources(data.chunks)) \o <<LF>>)>>
      ELSE <<>>)

RECURSIVE TransformLines(_)
TransformLines(lines) ==
  IF lines = <<>> THEN <<>>
  ELSE LET trimmed == Trim(Head(lines))
           data == ParseUpstream(trimmed)
       IN (IF trimmed = <<>> \/ ~data.ok THEN <<>> ELSE Enqueued(data))
          \o TransformLines(Tail(lines))

\* buffer += new TextDecoder().decode(chunk, { stream: true }): a decoder of
\* its own for every chunk, whose retained bytes are lost with it.
RelayDecode(chunk) == Decode(<<>>, chunk).out

\* transform(chunk, controller): the new buffer and the chunks enqueued.
Transform(buffer, chunk) ==
  LET lines == Split(buffer \o RelayDecode(chunk))
  IN [buffer |-> Last(lines), out |-> TransformLines(Front(lines))]

\* A flush that enqueues no terminal line.
NoTerminal == <<>>

\* What flush enqueues last.
Terminal == <<Encode(StringifyDone \o <<LF>>)>>

\* flush(controller): the retained fragment, parsed untrimmed, then done.
Flush(buffer) ==
  LET data == ParseUpstream(buffer)
  IN (IF Trim(buffer) # <<>> /\ data.ok THEN Enqueued(data) ELSE <<>>) \o Terminal

\* The relay's JSON responses.
JsonResponse(status, body) == [status |-> status, ctype |-> "json", body |-> body]
ErrorDoc(error) == [kind |-> "error", error |-> error, answer |-> <<>>, sources |-> <<>>]
AnswerDoc(answer, sources) ==
  [kind |-> "answer", error |-> <<>>, answer |-> answer, sources |-> sources]
NoResponse == [status |-> 0, ctype |-> "none", body |-> ErrorDoc(<<>>)]

NoUpstream ==
  [failed |-> FALSE, ok |-> FALSE, status |-> 0, statusText |-> <<>>, json |-> FALSE,
   hasMessage |-> FALSE, message |-> <<>>, hasText |-> FALSE, text |-> <<>>,
   chunks |-> <<>>, stream |-> <<>>]

\* onRequestPost up to its first upstream fetch.  env.apiKey tells whether
\* GEMINI_API_KEY is set; req.json tells whether the body parses.  The
\* history filter runs outside every try block: when it throws, the handler
\* ends with the exception and returns no response of its own.
Invocation(req) ==
  LET h == [req |-> req, pc |-> "done", mode |-> "none", tools |-> FALSE,
            contents |-> <<>>, up |-> NoUpstream, pos |-> 0, buffer |-> <<>>,
            out |-> <<>>, response |-> NoResponse]
  IN IF ~req.apiKey
       THEN [h EXCEPT !.response =
               JsonResponse(500, ErrorDoc(<<"GEMINI_API_KEY is not configured.">>))]
     ELSE IF ~req.json
       THEN [h EXCEPT !.response = JsonResponse(400, ErrorDoc(<<"Invalid JSON body.">>))]
     ELSE IF TrimmedQuery(req.body) = <<>>
       THEN [h EXCEPT !.response =
               JsonResponse(400, ErrorDoc(<<"Missing or empty 'query'.">>))]
     ELSE IF req.body.historyIsArray /\ FilterThrows(req.body.history)
       THEN [h EXCEPT !.pc = "thrown"]
     ELSE [h EXCEPT !.pc = "fetch",
                    !.mode = IF UseStreaming(req.body) THEN "streamGenerateContent"
                             ELSE "generateContent",
                    !.tools = req.body.useWebSearch,
                    !.contents = Contents(req.body)]

\* The first request arrives.
Receive(req) ==
  /\ relay = <<>>
  /\ relay' = <<Invocation(req)>>
  /\ UNCHANGED appVars

\* A request arrives while others are being handled: an invocation of its
\* own, with its own `buffer` (declared inside the handler, search.ts:87).
ReceiveNext(req) ==
  /\ Len(relay) < MaxRequests
  /\ relay' = Append(relay, Invocation(req))
  /\ UNCHANGED appVars

\* catch (err): 500 with the error's message.
Thrown(msg) == JsonResponse(500, ErrorDoc(msg))

\* err?.error?.message || res.statusText
UpstreamMessage(up) ==
  IF up.hasMessage /\ up.message # <<>> THEN up.message ELSE up.statusText

\* The streaming fetch settles: a rejection, a non-success status (whose
\* body is read as JSON), or a body to pipe through the transform.
StreamFetchSettles(r, up) ==
  /\ r \in DOMAIN relay
  /\ relay[r].pc = "fetch"
  /\ relay[r].mode = "streamGenerateContent"
  /\ relay' = [relay EXCEPT ![r] =
       IF up.failed
         THEN [@ EXCEPT !.pc = "done", !.up = up, !.response = Thrown(up.message)]
       ELSE IF ~up.ok
         THEN [@ EXCEPT !.pc = "done", !.up = up,
                        !.response = IF up.json
                                     THEN JsonResponse(up.status, ErrorDoc(UpstreamMessage(up)))
                                     ELSE Thrown(<<"Unexpected token">>)]
       ELSE [@ EXCEPT !.pc = "pump", !.up = up,
                      !.response = [status |-> 200, ctype |-> "ndjson",
                                    body |-> ErrorDoc(<<>>)]]]
  /\ UNCHANGED appVars

\* A transform whose `buffer` is one variable shared by every invocation.
PumpSharedBuffer(r) ==
  /\ r \in DOMAIN relay
  /\ relay[r].pc = "pump"
  /\ \E n \in 1..(Len(relay[r].up.stream) - relay[r].pos) :
     \E t \in {Transform(relay[1].buffer,
                         SubSeq(relay[r].up.stream, relay[r].pos + 1, relay[r].pos + n))} :
        relay' = [[relay EXCEPT ![r].pos = @ + n, ![r].out = @ \o t.out]
                    EXCEPT ![1].buffer = t.buffer]
  /\ UNCHANGED appVars

\* The upstream body delivers its next bytes, any number of them.
Pump(r) ==
  /\ r \in DOMAIN relay
  /\ relay[r].pc = "pump"
  /\ \E n \in 1..(Len(relay[r].up.stream) - relay[r].pos) :
     \E t \in {Transform(relay[r].buffer,
                         SubSeq(relay[r].up.stream, relay[r].pos + 1, relay[r].pos + n))} :
        relay' = [relay EXCEPT ![r].pos = @ + n, ![r].buffer = t.buffer,
                               ![r].out = @ \o t.out]
  /\ UNCHANGED appVars

\* The upstream body ends: flush, and the response body is closed.
UpstreamEnds(r) ==
  /\ r \in DOMAIN relay
  /\ relay[r].pc = "pump"
  /\ relay[r].pos = Len(relay[r].up.stream)
  /\ relay' = [relay EXCEPT ![r].pc = "closed", ![r].out = @ \o Flush(relay[r].buffer)]
  /\ UNCHANGED appVars

\* The upstream body fails: the response body is errored, flush never runs.
UpstreamAborts(r) ==
  /\ r \in DOMAIN relay
  /\ relay[r].pc = "pump"
  /\ relay' = [relay EXCEPT ![r].pc = "errored"]
  /\ UNCHANGED appVars

\* data.candidates?.[0]?.content?.parts?.[0]?.text ?? the fixed answer
AnswerText(up) == IF up.hasText THEN up.text ELSE MissingAnswer

\* The non-streaming fetch settles and its body is read as JSON.
SingleFetchSettles(r, up) ==
  /\ r \in DOMAIN relay
  /\ relay[r].pc = "fetch"
  /\ relay[r].mode = "generateContent"
  /\ relay' = [relay EXCEPT ![r] =
       [@ EXCEPT !.pc = "done", !.up = up,
                 !.response =
                   IF up.failed THEN Thrown(up.message)
                   ELSE IF ~up.json THEN Thrown(<<"Unexpected token">>)
                   ELSE IF ~up.ok
                     THEN JsonResponse(up.status, ErrorDoc(UpstreamMessage(up)))
                   ELSE JsonResponse(200,
                          AnswerDoc(AnswerText(up), UniqueSources(WebSources(up.chunks))))]]
  /\ UNCHANGED appVars

\* ---------------------------------------------------- Relay: specification

\* The request bodies: `query` missing or not a string, empty, blank, or a
\* text with blanks around it; `history` not an array, or an array whose
\* entries are a kept turn, a foreign role and a non-string content, or a
\* kept turn and null.
RelayQueries == {<<>>, <<SP>>, <<NBSP, LF>>, <<SP, "q", SP>>}

RelayHistory ==
  << [role |-> "user", contentIsString |-> TRUE, content |-> <<"h">>, nullish |-> FALSE],
     [role |-> "system", contentIsString |-> TRUE, content |-> <<"s">>, nullish |-> FALSE],
     [role |-> "model", contentIsString |-> FALSE, content |-> <<>>, nullish |-> FALSE] >>

NullEntry == [role |-> "none", contentIsString |-> FALSE, content |-> <<>>, nullish |-> TRUE]

HistoryValues ==
  { [isArray |-> FALSE, entries |-> <<>>],
    [isArray |-> TRUE, entries |-> RelayHistory],
    [isArray |-> TRUE, entries |-> <<RelayHistory[1], NullEntry>>] }

Bodies ==
  { [queryIsString |-> qs, query |-> q, useWebSearch |-> w, stream |-> st,
     historyIsArray |-> hv.isArray, history |-> hv.entries] :
      qs \in BOOLEAN, q \in RelayQueries, w \in BOOLEAN, st \in BOOLEAN,
      hv \in HistoryValues }

NoJson ==
  [queryIsString |-> FALSE, query |-> <<>>, useWebSearch |-> FALSE, stream |-> FALSE,
   historyIsArray |-> FALSE, history |-> <<>>]

Requests ==
  { [apiKey |-> k, json |-> TRUE, body |-> b] :
      k \in BOOLEAN, b \in {x \in Bodies : x.queryIsString \/ x.query = <<>>} }
  \cup { [apiKey |-> k, json |-> FALSE, body |-> NoJson] : k \in BOOLEAN }

Stringify(hasText, text, hasChunks, chunks) ==
  <<"{">> \o (IF hasText THEN <<"gText">> \o Quote(text) ELSE <<>>)
          \o (IF hasChunks THEN <<"gChunks">> \o Arr(chunks) ELSE <<>>) \o <<"}">>

NotWeb == [web |-> FALSE, title |-> NoTitle, uri |-> "none"]

\* The lines of an upstream streaming body: a text, a text of a two-byte
\* character, citations sharing a URI, an empty text with a chunk that is
\* not a web chunk, and a document cut short.
UpLines ==
  { Stringify(TRUE, <<"a">>, FALSE, <<>>),
    Stringify(TRUE, <<"eacute">>, FALSE, <<>>),
    Stringify(FALSE, <<>>, TRUE, <<Source("t1", "u1"), Source(NoTitle, "u1")>>),
    Stringify(TRUE, <<>>, TRUE, <<NotWeb>>),
    <<"{", "gText", QT, "a">> }

UpStreams ==
  LET bodies == SeqsUpTo(UpLines, MaxUpLines)
  IN {Encode(Lines(ls)) : ls \in bodies}
     \cup {Encode(Lines(Front(ls)) \o Last(ls)) : ls \in bodies \ {<<>>}}

Rejected(msg) == [NoUpstream EXCEPT !.failed = TRUE, !.message = msg]
NotJson(status) == [NoUpstream EXCEPT !.status = status, !.ok = (status = 200)]
Refused(status, statusText, hasMessage, message) ==
  [NoUpstream EXCEPT !.status = status, !.statusText = statusText, !.json = TRUE,
                     !.hasMessage = hasMessage, !.message = message]

UpFailures ==
  { Rejected(<<"fetch", "failed">>),
    NotJson(502),
    Refused(429, <<"Too", "Many", "Requests">>, TRUE, <<"Quota", "exceeded">>),
    Refused(503, <<"Service", "Unavailable">>, FALSE, <<>>) }

StreamUpstreams ==
  UpFailures
  \cup { [NoUpstream EXCEPT !.ok = TRUE, !.status = 200, !.stream = b] : b \in UpStreams }

\* The citation chunks of an upstream document.
Chunks ==
  { Source("t1", "u1"), Source("t2", "u1"), Source(NoTitle, "u2"),
    Source("t1", "u3"), NotWeb }

SingleUpstreams ==
  UpFailures \cup {NotJson(200)}
  \cup { [NoUpstream EXCEPT !.ok = TRUE, !.status = 200, !.json = TRUE,
                            !.hasText = ht, !.text = IF ht THEN <<"b">> ELSE <<>>,
                            !.chunks = cs] :
           ht \in BOOLEAN, cs \in SeqsUpTo(Chunks, MaxCitations) }

\* One request to the relay, and no App.
InitRelay ==
  /\ messages = <<>>
  /\ isLoading = FALSE
  /\ history = <<>>
  /\ query = <<>>
  /\ isWebSearchEnabled = FALSE
  /\ calls = <<>>
  /\ relay = <<>>

NextRelay ==
  \/ \E req \in Requests : Receive(req)
  \/ \E up \in StreamUpstreams : StreamFetchSettles(1, up)
  \/ Pump(1)
  \/ UpstreamEnds(1)
  \/ UpstreamAborts(1)
  \/ \E up \in SingleUpstreams : SingleFetchSettles(1, up)

SpecRelay == InitRelay /\ [][NextRelay]_vars

\* ------------------------------------------ App and relay: specification

\* The bound on the documents of an upstream body in the joint behaviours.
MaxDocs == 2

\* The documents: a text of a one-byte character, a text of a two-byte
\* character, and citations without a text.
UpDocs ==
  { Stringify(TRUE, <<"a">>, FALSE, <<>>),
    Stringify(TRUE, <<"eacute">>, FALSE, <<>>),
    Stringify(FALSE, <<>>, TRUE, <<Source("t1", "u1")>>) }

\* The upstream bodies: every document on a line of its own, the last line
\* with or without its line break.
DocStreams ==
  LET bodies == SeqsUpTo(UpDocs, MaxDocs)
  IN {Encode(Lines(ls)) : ls \in bodies}
     \cup {Encode(Lines(Front(ls)) \o Last(ls)) : ls \in bodies \ {<<>>}}

\* body: JSON.stringify({ query, useWebSearch, history, stream: true }) with
\* the key configured on the relay's side.
RequestOf(c) ==
  [apiKey |-> TRUE, json |-> TRUE,
   body |-> [queryIsString |-> TRUE, query |-> calls[c].searchQuery,
             useWebSearch |-> calls[c].useWebSearch, stream |-> calls[c].useStreaming,
             historyIsArray |-> TRUE,
             history |-> [i \in DOMAIN calls[c].historyForRequest |->
                            [role |-> calls[c].historyForRequest[i].role,
                             contentIsString |-> TRUE,
                             content |-> calls[c].historyForRequest[i].content,
                             nullish |-> FALSE]]]]

\* The request of call c reaches the relay.
Arrives(c) ==
  /\ c \in DOMAIN calls
  /\ calls[c].pc = "fetch"
  /\ Receive(RequestOf(c))

\* The relay's response reaches call c: its body is what the transform and
\* flush enqueued, and the read loop takes it in chunks of any size.
Responds(c) ==
  /\ relay # <<>>
  /\ relay[1].pc = "closed"
  /\ FetchSettles(c, NdjsonResponse(Concat(relay[1].out)))

\* One submission with web search off, sent through the relay to an upstream
\* that answers with a body and ends.
InitEndToEnd ==
  /\ messages = <<>>
  /\ isLoading = FALSE
  /\ history = <<>>
  /\ query \in Queries
  /\ isWebSearchEnabled = FALSE
  /\ calls = <<>>
  /\ relay = <<>>

NextEndToEnd ==
  \/ Submit
  \/ Arrives(1)
  \/ \E b \in DocStreams :
       StreamFetchSettles(1, [NoUpstream EXCEPT !.ok = TRUE, !.status = 200, !.stream = b])
  \/ Pump(1)
  \/ UpstreamEnds(1)
  \/ Responds(1)
  \/ ReadChunk(1)
  \/ ReadDone(1)

SpecEndToEnd == InitEndToEnd /\ [][NextEndToEnd]_vars

\* ---------------------------------------- several requests through the relay

\* Upstream bodies of the requests handled at once: a text on a terminated
\* line, a text of a two-byte character left unterminated, and citations.
ConcurrentStreams ==
  { Encode(Lines(<<Stringify(TRUE, <<"a">>, FALSE, <<>>)>>)),
    Encode(Stringify(TRUE, <<"eacute">>, FALSE, <<>>)),
    Encode(Stringify(FALSE, <<>>, TRUE, <<Source("t1", "u1")>>)) }

\* Streaming requests arrive one after another and their upstream bodies are
\* pumped in any interleaving.
NextConcurrent ==
  \/ \E req \in {x \in Requests : x.apiKey /\ x.json /\ UseStreaming(x.body)
                                   /\ TrimmedQuery(x.body) # <<>>
                                   /\ ~x.body.historyIsArray} : ReceiveNext(req)
  \/ \E r \in 1..MaxRequests :
       \/ \E b \in ConcurrentStreams :
            StreamFetchSettles(r, [NoUpstream EXCEPT !.ok = TRUE, !.status = 200,
                                                     !.stream = b])
       \/ Pump(r)
       \/ UpstreamEnds(r)

SpecConcurrent == InitRelay /\ [][NextConcurrent]_vars

\* --------------------------------------------------- the archive when full

\* The session left by the n-th conversation: a query of n characters whose
\* request failed, then a new chat.
Session(n) ==
  LET text == [i \in 1..n |-> "h"]
  IN [title |-> SessionTitle(text),
      messages |-> <<UserMessage(text), FailureMessage(<<"fetch", "failed">>, FALSE)>>]

\* The archive is empty, one short of full, or full; nothing is pending.
InitArchive ==
  /\ messages = <<>>
  /\ isLoading = FALSE
  /\ history \in { [i \in 1..k |-> Session(k + 1 - i)] :
                     k \in {0, KeepSessions, KeepSessions + 1} }
  /\ query = <<>>
  /\ isWebSearchEnabled = FALSE
  /\ calls = <<>>
  /\ relay = <<>>

\* The newest sessions loaded again, then submissions whose requests fail,
\* and new chats at any moment.
NextArchive ==
  \/ \E q \in Queries : SetQuery(q)
  \/ Submit
  \/ \E c \in 1..MaxCalls : FetchSettles(c, NetworkFailure(<<"fetch", "failed">>))
  \/ startNewChat
  \/ \E i \in 1..MaxArchive : calls = <<>> /\ loadSession(i)

SpecArchive == InitArchive /\ [][NextArchive]_vars

\* ================================================================== claims

\* The events of a body read as one text: every line ended by a line break,
\* then the unterminated remainder.
RECURSIVE EventsOfPieces(_)
EventsOfPieces(pieces) ==
  IF pieces = <<>> THEN <<>>
  ELSE LET p == IF Len(pieces) > 1 THEN Trim(Head(pieces)) ELSE Head(pieces)
           e == ParseEvent(p)
       IN (IF Trim(p) # <<>> /\ e.ok THEN <<e>> ELSE <<>>)
          \o EventsOfPieces(Tail(pieces))

EventsOf(bytes) == EventsOfPieces(Split(Decode(<<>>, bytes).out))

IsDeltaEvent(e) == e.type = "delta" /\ e.hasText
IsSourcesEvent(e) == e.type = "sources" /\ e.hasSources
IsDoneEvent(e) == e.type = "done"

RECURSIVE Texts(_)
Texts(evs) == IF evs = <<>> THEN <<>> ELSE <<Head(evs).text>> \o Texts(Tail(evs))

DeltaTexts(bytes) == Texts(SelectSeq(EventsOf(bytes), IsDeltaEvent))

Streamed(c) == c \in DOMAIN calls /\ calls[c].pc = "done" /\ calls[c].res.ndjson

\* C1: when the stream has ended, the placeholder's content is the
\* concatenation, in arrival order, of the texts of the body's delta events.
C1_DeltaAccumulation ==
  \A c \in DOMAIN calls :
    Streamed(c) =>
      LastOf(messages).content = Concat(DeltaTexts(calls[c].res.stream))

\* Two different deltas have been assembled, in their order of arrival.
C1_Witness ==
  \E c \in DOMAIN calls :
    /\ Streamed(c)
    /\ DeltaTexts(calls[c].res.stream) = << <<"a">>, <<"eacute", LF>> >>
    /\ LastOf(messages).content = <<"a", "eacute", LF>>

\* The body cut after every line break.
RECURSIVE WholeLineChunks(_, _)
WholeLineChunks(bytes, cur) ==
  IF bytes = <<>> THEN (IF cur = <<>> THEN <<>> ELSE <<cur>>)
  ELSE IF Head(bytes) = LF
    THEN <<Append(cur, LF)>> \o WholeLineChunks(Tail(bytes), <<>>)
  ELSE WholeLineChunks(Tail(bytes), Append(cur, Head(bytes)))

RECURSIVE ReadTurns(_, _)
ReadTurns(r, chunks) ==
  IF chunks = <<>> THEN r ELSE ReadTurns(ReadTurn(r, Head(chunks)), Tail(chunks))

\* What handleSearch assembles when call c's body arrives line by line.
DeliveredAsWholeLines(c) ==
  TailTurn(ReadTurns([pending |-> <<>>, buffer |-> <<>>, sources |-> <<>>,
                      messages |-> <<UserMessage(calls[c].searchQuery), placeholder>>,
                      log |-> <<>>],
                     WholeLineChunks(calls[c].res.stream, <<>>)))

\* C2: however the body was cut into chunks, the events dispatched and the
\* assembled conversation and sources are those of its delivery as whole lines.
C2_ChunkBoundaryIndependence ==
  \A c \in DOMAIN calls :
    Streamed(c) =>
      LET w == DeliveredAsWholeLines(c)
      IN /\ calls[c].log = w.log
         /\ messages = w.messages
         /\ calls[c].sources = w.sources

\* A body cut inside a line has been assembled into a non-empty answer with
\* sources.
C2_Witness ==
  \E c \in DOMAIN calls :
    /\ Streamed(c)
    /\ calls[c].split
    /\ LastOf(messages).content # <<>>
    /\ LastOf(messages).sources # <<>>

InFlight == {c \in DOMAIN calls : calls[c].pc # "done"}

\* C3: while a request is pending the gate is closed, so at most one request
\* is in flight and at most one placeholder is being streamed into; an
\* invocation of handleSearch made meanwhile changes nothing.
C3_PendingGate ==
  /\ [](/\ Cardinality(InFlight) <= 1
        /\ InFlight # {} => isLoading)
  /\ [][(isLoading /\ (Submit \/ Retry)) => UNCHANGED vars]_vars

\* A request is being streamed while the input box holds a query that
\* handleSearch would accept if nothing were pending.
C3_Witness ==
  /\ isLoading
  /\ Trim(query) # <<>>
  /\ Len(calls) < MaxCalls
  /\ \E c \in DOMAIN calls : calls[c].pc = "read"

\* C4: while a body is being read, the placeholder is the last message.
C4_PlaceholderLast ==
  \A c \in DOMAIN calls :
    calls[c].pc = "read" =>
      /\ messages # <<>>
      /\ LastOf(messages).role = "model"
      /\ LastOf(messages).isWebSearch = "false"

\* A body is being read while the conversation is empty: the user started a
\* new conversation after the placeholder was appended.
C4_Witness ==
  \E c \in DOMAIN calls :
    /\ calls[c].pc = "read"
    /\ calls[c].pos = 0
    /\ messages = <<>>
    /\ Len(history) = 1

\* The index of the last done event, 0 when there is none.
RECURSIVE LastDone(_)
LastDone(evs) ==
  IF evs = <<>> THEN 0
  ELSE IF IsDoneEvent(Last(evs)) THEN Len(evs) ELSE LastDone(Front(evs))

\* The list of the last sources event, the empty list when there is none.
RECURSIVE LastSources(_)
LastSources(evs) ==
  IF evs = <<>> THEN <<>>
  ELSE IF IsSourcesEvent(Last(evs)) THEN Last(evs).sources
  ELSE LastSources(Front(evs))

\* C10: the finalized message's sources are exactly the list of the last
\* sources event that came before done, the empty list when none did.
C10_SourcesOverwrite ==
  \A c \in DOMAIN calls :
    Streamed(c) /\ LastDone(EventsOf(calls[c].res.stream)) > 0 =>
      LET evs == EventsOf(calls[c].res.stream)
      IN /\ LastOf(messages).hasSources
         /\ LastOf(messages).sources = LastSources(SubSeq(evs, 1, LastDone(evs)))

\* sources([t1 u1, t2 u2]), sources([t1 u3]), done has been assembled.
C10_Witness ==
  \E c \in DOMAIN calls :
    /\ Streamed(c)
    /\ Len(SelectSeq(EventsOf(calls[c].res.stream), IsSourcesEvent)) = 2
    /\ IsDoneEvent(Last(EventsOf(calls[c].res.stream)))
    /\ LastOf(messages).sources = <<Source("t1", "u3")>>

\* --------------------------------------------------------- relay's claims

\* The events of what the relay has enqueued so far.
Emitted(r) == EventsOf(Concat(relay[r].out))

\* The request carries a truthy useWebSearch.
Grounded(r) == relay[r].req.json /\ relay[r].req.body.useWebSearch

\* `query` is missing or not a string, empty, or made of whitespace only.
NoQuery(r) ==
  /\ relay[r].req.json
  /\ \/ ~relay[r].req.body.queryIsString
     \/ \A i \in DOMAIN relay[r].req.body.query : IsWs(relay[r].req.body.query[i])

\* The request passes the key check and the validation.
Admitted(r) == relay[r].req.apiKey /\ relay[r].req.json /\ ~NoQuery(r)

\* C5: for a request with useWebSearch=true, whatever `stream` is, the only
\* upstream call is generateContent (with the search tool; made by every
\* request that passes the key check, the validation and the history
\* filter), nothing is ever enqueued on a stream, and the response is a
\* single JSON document, never application/x-ndjson.
C5_GroundingDisablesStreaming ==
  \A r \in DOMAIN relay :
    Grounded(r) =>
      /\ relay[r].mode # "streamGenerateContent"
      /\ (Admitted(r) /\ relay[r].pc # "thrown")
           => relay[r].mode = "generateContent" /\ relay[r].tools
      /\ relay[r].out = <<>>
      /\ relay[r].response.ctype # "ndjson"
      /\ relay[r].pc \notin {"pump", "closed", "errored"}
      /\ relay[r].pc = "done" => relay[r].response.ctype = "json"

\* A request with useWebSearch=true and stream=true has been answered with a
\* JSON answer.
C5_Witness ==
  \E r \in DOMAIN relay :
    /\ Grounded(r)
    /\ relay[r].req.body.stream
    /\ relay[r].pc = "done"
    /\ relay[r].response.status = 200
    /\ relay[r].response.body.kind = "answer"
    /\ relay[r].response.body.sources # <<>>

\* C6 as stated: every request without a usable query is answered 400 and
\* no upstream call is made for it.
C6_QueryValidation ==
  \A r \in DOMAIN relay :
    NoQuery(r) =>
      /\ relay[r].pc = "done"
      /\ relay[r].response.status = 400
      /\ relay[r].mode = "none"

\* C6: for every request without a usable query no upstream call is made;
\* it is answered 400 when GEMINI_API_KEY is set, and 500 when it is not.
C6_QueryValidationWithKey ==
  \A r \in DOMAIN relay :
    NoQuery(r) =>
      /\ relay[r].pc = "done"
      /\ relay[r].mode = "none"
      /\ relay[r].up = NoUpstream
      /\ relay[r].response.ctype = "json"
      /\ relay[r].response.status = IF relay[r].req.apiKey THEN 400 ELSE 500

\* With the key set, a whitespace-only query has been answered 400.
C6_Witness ==
  \E r \in DOMAIN relay :
    /\ relay[r].req.apiKey
    /\ relay[r].req.json
    /\ relay[r].req.body.queryIsString
    /\ relay[r].req.body.query = <<SP>>
    /\ relay[r].response.status = 400

\* C7: a streamed body carries no done event before the upstream body ends;
\* once it has ended the body holds exactly one done event, which is its
\* last event.
C7_TerminalEvent ==
  \A r \in DOMAIN relay :
    /\ relay[r].pc \in {"pump", "errored"} => SelectSeq(Emitted(r), IsDoneEvent) = <<>>
    /\ relay[r].pc = "closed" =>
         /\ relay[r].response.ctype = "ndjson"
         /\ Len(SelectSeq(Emitted(r), IsDoneEvent)) = 1
         /\ IsDoneEvent(Last(Emitted(r)))
         /\ Last(relay[r].out) = Encode(StringifyDone \o <<LF>>)

\* A stream of a delta, a sources event and done has been closed.
C7_Witness ==
  \E r \in DOMAIN relay :
    /\ relay[r].pc = "closed"
    /\ Len(Emitted(r)) = 3
    /\ IsDeltaEvent(Emitted(r)[1])
    /\ IsSourcesEvent(Emitted(r)[2])
    /\ IsDoneEvent(Emitted(r)[3])

\* A 200 answer of the non-streaming path.
Answered(r) ==
  /\ r \in DOMAIN relay
  /\ relay[r].pc = "done"
  /\ relay[r].response.status = 200
  /\ relay[r].response.body.kind = "answer"

RECURSIVE UrisOf(_)
UrisOf(list) == IF list = <<>> THEN <<>> ELSE <<Head(list).uri>> \o UrisOf(Tail(list))

\* The web chunks of the upstream document, with the title the relay gives
\* each of them.
Cited(r) ==
  LET web == SelectSeq(relay[r].up.chunks, LAMBDA c : c.web)
  IN [i \in DOMAIN web |->
        [web[i] EXCEPT !.title = IF @ = NoTitle THEN DefaultTitle ELSE @]]

\* The first position of a URI in a list that holds it.
FirstAt(list, uri) ==
  CHOOSE i \in DOMAIN list :
    list[i].uri = uri /\ \A j \in 1..(i - 1) : list[j].uri # uri

Distinct(list) ==
  \A i, j \in DOMAIN list : list[i].uri = list[j].uri => i = j

\* C8: the sources of a non-streaming answer hold every URI of the upstream
\* web chunks exactly once, in the order of the URIs' first occurrences, each
\* with the title of its first occurrence.
C8_Deduplication ==
  \A r \in DOMAIN relay :
    Answered(r) =>
      LET cited == Cited(r)
          sent == relay[r].response.body.sources
      IN /\ Distinct(sent)
         /\ {sent[i].uri : i \in DOMAIN sent} = {cited[i].uri : i \in DOMAIN cited}
         /\ \A i \in DOMAIN sent : sent[i] = cited[FirstAt(cited, sent[i].uri)]
         /\ \A i, j \in DOMAIN sent :
              i < j => FirstAt(cited, sent[i].uri) < FirstAt(cited, sent[j].uri)

\* Chunks with the URIs [u1, u2, u1, u3] have been answered with
\* [u1, u2, u3], u1 under its first title.
C8_Witness ==
  \E r \in DOMAIN relay :
    /\ Answered(r)
    /\ UrisOf(relay[r].up.chunks) = <<"u1", "u2", "u1", "u3">>
    /\ relay[r].up.chunks[1].title # relay[r].up.chunks[3].title
    /\ UrisOf(relay[r].response.body.sources) = <<"u1", "u2", "u3">>
    /\ relay[r].response.body.sources[1].title = relay[r].up.chunks[1].title

\* C9: every source list has pairwise distinct URIs: the sources of a
\* non-streaming answer, the list of every sources event of a stream, and
\* the sources attached to a message.
C9_SourceUniqueness ==
  /\ \A r \in DOMAIN relay :
       /\ Distinct(relay[r].response.body.sources)
       /\ \A i \in DOMAIN Emitted(r) :
            IsSourcesEvent(Emitted(r)[i]) => Distinct(Emitted(r)[i].sources)
  /\ \A i \in DOMAIN messages :
       messages[i].role = "model" => Distinct(messages[i].sources)

\* A sources event has been enqueued for upstream chunks sharing a URI.
C9_Witness ==
  \E r \in DOMAIN relay :
    \E i \in DOMAIN Emitted(r) :
      /\ IsSourcesEvent(Emitted(r)[i])
      /\ UrisOf(Emitted(r)[i].sources) = <<"u1", "u1">>

\* ------------------------------------------------------ outcomes' claims

\* Call c ended in the catch block.
Failed(c) == c \in DOMAIN calls /\ calls[c].pc = "done" /\ calls[c].thrown

IsFallback(m) ==
  /\ m.role = "model"
  /\ m.content \in {QuotaMessage, GenericMessage}
  /\ ~m.hasSources

\* C11: when the request of a submission has failed, the conversation is the
\* user's message followed by exactly one model entry, the fallback message;
\* no placeholder is left before it.
C11_FallbackReplacesEntry ==
  \A c \in DOMAIN calls :
    Failed(c) =>
      /\ Len(messages) = 2
      /\ messages[1] = UserMessage(calls[c].searchQuery)
      /\ IsFallback(messages[2])

\* A read error after a delta has left the partly filled placeholder in the
\* conversation, with the fallback message after it.
C11_Witness ==
  \E c \in DOMAIN calls :
    /\ Failed(c)
    /\ calls[c].res.ndjson
    /\ Len(messages) = 3
    /\ messages[2].role = "model"
    /\ messages[2].content = <<"a">>
    /\ IsFallback(messages[3])

\* The status-derived text of a failed response.
StatusText(res) ==
  IF res.bodyKind = "nonjson"
  THEN (IF res.status = 405 THEN Message405 ELSE ServerErrorMessage(res.status))
  ELSE RequestFailedMessage(res.status)

\* The error text of a failed call as the claim defines it: the network
\* error's message for a rejected fetch or read, the relay's `error` when the
\* body is a JSON document carrying a non-empty one, the status-derived text
\* otherwise.
ErrorTextOf(c) ==
  LET res == calls[c].res IN
    IF res.failed THEN res.errmsg
    ELSE IF res.ndjson /\ res.ok /\ calls[c].useStreaming THEN <<"network error">>
    ELSE IF res.bodyKind = "json" /\ res.data.hasError /\ res.data.error # <<>>
      THEN res.data.error
    ELSE StatusText(res)

\* The spellings of the indicators that occur in error texts.
Indicators ==
  {"429", "quota", "Quota", "QUOTA", "rate limit", "Rate Limit", "RATE LIMIT",
   "rate-limit", "Rate-Limit", "RATE-LIMIT"}

Mentions(text) == \E i \in DOMAIN text : text[i] \in Indicators

\* C12: the fallback message of a failed call is the rate/quota variant
\* exactly when its error text holds "429", "quota", "rate limit" or
\* "rate-limit" in any case, and the generic message otherwise.
C12_FailureClassification ==
  \A c \in DOMAIN calls :
    Failed(c) =>
      /\ calls[c].error = ErrorTextOf(c)
      /\ LastOf(messages).content =
           IF Mentions(ErrorTextOf(c)) THEN QuotaMessage ELSE GenericMessage

\* A 500 whose error document says "Quota exceeded" got the rate/quota
\* message.
C12_Witness ==
  \E c \in DOMAIN calls :
    /\ Failed(c)
    /\ calls[c].res.status = 500
    /\ calls[c].res.data.error = <<"Quota", "exceeded">>
    /\ LastOf(messages).content = QuotaMessage

\* C13: under SpecLive every call that passed the guard ends, and ends with
\* the pending state cleared; the pending state is clear whenever no call is
\* in flight, so that a submission of a non-blank query is accepted again;
\* and a request is issued only by a Submit or Retry made while nothing is
\* pending.
C13_GateRelease ==
  /\ \A c \in 1..MaxCalls :
       (c \in DOMAIN calls /\ calls[c].pc # "done")
         ~> (c \in DOMAIN calls /\ calls[c].pc = "done" /\ ~isLoading)
  /\ [](InFlight = {} => ~isLoading)
  /\ []((InFlight = {} /\ Trim(query) # <<>> /\ Len(calls) < MaxCalls)
          => ENABLED <<Submit>>_vars)
  /\ [][Len(calls') > Len(calls) => (~isLoading /\ (Submit \/ Retry))]_vars

\* A second submission is in flight after the first ended in a read error.
C13_Witness ==
  /\ Len(calls) = 2
  /\ calls[1].pc = "done"
  /\ calls[1].thrown
  /\ calls[1].res.ndjson
  /\ calls[2].pc = "fetch"
  /\ isLoading

\* The upstream call of request r returned, with a non-success status.
UpstreamRefused(r) ==
  /\ r \in DOMAIN relay
  /\ relay[r].up # NoUpstream
  /\ ~relay[r].up.failed
  /\ ~relay[r].up.ok

\* C14: whenever the upstream call returns a non-success status, in either
\* mode, the relay's response is one JSON error document with the upstream
\* status and the upstream's error message when there is one, else the
\* status text, and no event was emitted.
C14_UpstreamFailurePropagation ==
  \A r \in DOMAIN relay :
    UpstreamRefused(r) =>
      /\ relay[r].response =
           JsonResponse(relay[r].up.status, ErrorDoc(UpstreamMessage(relay[r].up)))
      /\ relay[r].out = <<>>

\* A 502 whose body is not JSON was answered with a 500, in streaming mode.
C14_Witness ==
  /\ UpstreamRefused(1)
  /\ relay[1].mode = "streamGenerateContent"
  /\ relay[1].up.status = 502
  /\ ~relay[1].up.json
  /\ relay[1].response.status = 500

\* The history entries whose role is user or model and whose content is
\* text, in their order, as turns.
RECURSIVE KeptTurns(_)
KeptTurns(hist) ==
  IF hist = <<>> THEN <<>>
  ELSE LET m == Head(hist)
       IN (IF ~m.nullish /\ m.contentIsString /\ (m.role = "user" \/ m.role = "model")
           THEN <<[role |-> m.role, text |-> m.content]>> ELSE <<>>)
          \o KeptTurns(Tail(hist))

\* C15: for every request with a non-empty query the handler is not ended
\* by an exception, and the prompt is the kept history turns in their order
\* followed by the trimmed query as the final user turn.
C15_PromptConstruction ==
  \A r \in DOMAIN relay :
    Admitted(r) =>
      /\ relay[r].pc # "thrown"
      /\ relay[r].contents =
           Append(KeptTurns(relay[r].req.body.history),
                  [role |-> "user", text |-> Trim(relay[r].req.body.query)])

\* A request with a good query whose history holds null ended in the
\* exception, and nothing was sent upstream.
C15_Witness ==
  /\ 1 \in DOMAIN relay
  /\ Admitted(1)
  /\ \E i \in DOMAIN relay[1].req.body.history : relay[1].req.body.history[i].nullish
  /\ relay[1].pc = "thrown"
  /\ relay[1].up = NoUpstream

\* The documents of an upstream body read as one text, in their order.
RECURSIVE DocsOfLines(_)
DocsOfLines(lines) ==
  IF lines = <<>> THEN <<>>
  ELSE LET d == ParseUpstream(Head(lines))
       IN (IF Trim(Head(lines)) # <<>> /\ d.ok THEN <<d>> ELSE <<>>)
          \o DocsOfLines(Tail(lines))

DocsOf(bytes) == DocsOfLines(Split(Decode(<<>>, bytes).out))

\* The upstream of request r emitted texts only, and ended.
TextOnly(r) ==
  /\ r \in DOMAIN relay
  /\ relay[r].pc = "closed"
  /\ \A i \in DOMAIN DocsOf(relay[r].up.stream) :
       LET d == DocsOf(relay[r].up.stream)[i]
       IN d.hasText /\ d.text # <<>> /\ d.chunks = <<>>

DeltaOf(d) == [NoEvent EXCEPT !.ok = TRUE, !.type = "delta", !.hasText = TRUE, !.text = d.text]
DoneEvent == [NoEvent EXCEPT !.ok = TRUE, !.type = "done"]

\* C16: when the upstream emitted the texts t1..tn and ended, the relay's
\* body is delta(t1), ..., delta(tn), done, and when the read loop has ended
\* the conversation is the user's message and one model message whose
\* content is t1..tn joined and whose sources are the empty list, with the
\* pending state cleared.
C16_EndToEndStreaming ==
  TextOnly(1) =>
    /\ EventsOf(Concat(relay[1].out)) =
         [i \in DOMAIN DocsOf(relay[1].up.stream) |-> DeltaOf(DocsOf(relay[1].up.stream)[i])]
         \o <<DoneEvent>>
    /\ Streamed(1) =>
         /\ messages =
              << UserMessage(calls[1].searchQuery),
                 [placeholder EXCEPT
                    !.content = Concat(Texts(DocsOf(relay[1].up.stream))),
                    !.hasSources = TRUE, !.sources = <<>>] >>
         /\ ~isLoading

\* The upstream's two bytes of one character came in two chunks, and the
\* assembled message holds the replacement character.
C16_Witness ==
  /\ TextOnly(1)
  /\ Streamed(1)
  /\ Texts(DocsOf(relay[1].up.stream)) = <<<<"eacute">>>>
  /\ LastOf(messages).content = <<REPL>>

\* ----------------------------------------------- assembler's later claims

\* C17 as stated: in the state after the read loop has processed a sources
\* event, before the stream has ended, the in-progress entry's source list
\* is that event's list.
C17_SourcesPerEvent ==
  \A c \in DOMAIN calls :
    (calls[c].pc = "read" /\ calls[c].log # <<>> /\ IsSourcesEvent(Last(calls[c].log))) =>
      /\ LastOf(messages).hasSources
      /\ LastOf(messages).sources = Last(calls[c].log).sources

\* C17, amended: after every turn of the read loop its local list is the list
\* of the last sources event processed (any earlier list replaced); the
\* in-progress entry has no source list until a done event is processed, and
\* then has the list the loop held at the last done.
C17_SourcesHeldUntilDone ==
  \A c \in DOMAIN calls :
    (calls[c].pc = "read" \/ Streamed(c)) =>
      /\ calls[c].sources = LastSources(calls[c].log)
      /\ LastOf(messages).hasSources = (LastDone(calls[c].log) > 0)
      /\ LastOf(messages).sources =
           LastSources(SubSeq(calls[c].log, 1, LastDone(calls[c].log)))

\* The loop has processed a delta and two sources events and waits for more:
\* it holds the second list, and the entry has its text and no source list.
C17_Witness ==
  \E c \in DOMAIN calls :
    /\ calls[c].pc = "read"
    /\ Len(SelectSeq(calls[c].log, IsSourcesEvent)) = 2
    /\ IsSourcesEvent(Last(calls[c].log))
    /\ calls[c].sources = <<Source("t1", "u3")>>
    /\ LastOf(messages).content # <<>>
    /\ ~LastOf(messages).hasSources

\* The read loop of call c has processed a done event and the body has not
\* ended yet.
DoneProcessed(c) == calls[c].pc = "read" /\ LastDone(calls[c].log) > 0

Modifies == \E i \in DOMAIN messages \cap DOMAIN messages' : messages'[i] # messages[i]

\* C19: a step of handleSearch that changes a message in its place is a step
\* of a read loop, and the message changed is the last one and is that
\* loop's own placeholder (as created, or as the loop has written it).
C19_FinalizedImmutable ==
  [][(calls' # calls /\ Modifies) =>
       \E c \in DOMAIN calls :
         /\ calls[c].pc = "read"
         /\ calls'[c] # calls[c]
         /\ LastOf(messages) \in calls[c].mine
         /\ ButLast(messages') = ButLast(messages)]_vars

\* The answer "b" of an archived session, loaded while a stream was being
\* read, has received that stream's delta.
C19_Witness ==
  /\ \E c \in DOMAIN calls : calls[c].pc = "read" /\ calls[c].pos > 0
  /\ \E i \in DOMAIN history :
       /\ LastOf(history[i].messages).content = <<"b">>
       /\ ButLast(messages) = ButLast(history[i].messages)
  /\ LastOf(messages).content = <<"b", "a">>
  /\ LastOf(messages).hasSources

\* The step appends one message at the end.
Appends == messages' # <<>> /\ Front(messages') = messages

\* The step rewrites the last message, which is the placeholder of a stream
\* being read.
UpdatesInProgress ==
  /\ Len(messages') = Len(messages)
  /\ ButLast(messages') = ButLast(messages)
  /\ \E c \in DOMAIN calls : calls[c].pc = "read" /\ LastOf(messages) \in calls[c].mine

\* C20: a step of handleSearch leaves the conversation as it is, appends one
\* message at its end, or updates the in-progress entry; startNewChat makes
\* it empty.
C20_AppendOnly ==
  [][/\ calls' # calls => (messages' = messages \/ Appends \/ UpdatesInProgress)
     /\ startNewChat => messages' = <<>>]_vars

\* Both requests have ended and the conversation is an archived session
\* whose finalized answer "b" now reads "ba".
C20_Witness ==
  /\ Len(calls) = 2
  /\ InFlight = {}
  /\ \E i \in DOMAIN history :
       /\ LastOf(history[i].messages).content = <<"b">>
       /\ Len(messages) = Len(history[i].messages)
       /\ ButLast(messages) = ButLast(history[i].messages)
       /\ LastOf(messages).content = <<"b", "a">>

\* ------------------------------------------------- assembler's last claims

\* C21: when the body has ended without a done event, the call has ended
\* without an error, the pending state is clear, and the conversation is the
\* user's message and the entry, whose content is the texts of the body's
\* delta events joined and which has no source list; no other message was
\* added.
C21_EarlyClose ==
  \A c \in DOMAIN calls :
    (Streamed(c) /\ LastDone(EventsOf(calls[c].res.stream)) = 0) =>
      /\ ~calls[c].thrown
      /\ ~isLoading
      /\ messages =
           << UserMessage(calls[c].searchQuery),
              [placeholder EXCEPT !.content = Concat(DeltaTexts(calls[c].res.stream))] >>

\* A body of two deltas, the second without its line break, has ended with
\* no done event and both texts are in the entry.
C21_Witness ==
  \E c \in DOMAIN calls :
    /\ Streamed(c)
    /\ LastDone(EventsOf(calls[c].res.stream)) = 0
    /\ calls[c].res.stream # <<>>
    /\ Last(calls[c].res.stream) # LF
    /\ Len(DeltaTexts(calls[c].res.stream)) = 2
    /\ LastOf(messages).content = Concat(DeltaTexts(calls[c].res.stream))

\* The events the read loop acts on.
IsKnownEvent(e) == IsDeltaEvent(e) \/ IsSourcesEvent(e) \/ IsDoneEvent(e)

Applicable(bytes) == SelectSeq(EventsOf(bytes), IsKnownEvent)

IsPrefix(s, t) == Len(s) <= Len(t) /\ SubSeq(t, 1, Len(s)) = s

\* C22: the events the loop has acted on are, in order, the events of the
\* body's well-formed lines of a known type (a well-formed last line without
\* its line break included); when the body has ended all of them have been
\* applied, the deltas' texts are in the entry, and the call has ended with
\* neither an error nor a fallback message.
C22_FramingErrors ==
  \A c \in DOMAIN calls :
    /\ calls[c].pc = "read" => IsPrefix(calls[c].log, Applicable(calls[c].res.stream))
    /\ Streamed(c) =>
         /\ calls[c].log = Applicable(calls[c].res.stream)
         /\ ~calls[c].thrown
         /\ Len(messages) = 2
         /\ ~IsFallback(LastOf(messages))
         /\ LastOf(messages).content =
              Concat(Texts(SelectSeq(Applicable(calls[c].res.stream), IsDeltaEvent)))

\* A body of a line cut short, a line of an unknown type and a delta without
\* its line break has ended: only the delta was applied.
C22_Witness ==
  \E c \in DOMAIN calls :
    /\ Streamed(c)
    /\ Len(Split(Decode(<<>>, calls[c].res.stream).out)) = 3
    /\ ~ParseEvent(Split(Decode(<<>>, calls[c].res.stream).out)[1]).ok
    /\ ParseEvent(Split(Decode(<<>>, calls[c].res.stream).out)[2]).type = "other"
    /\ Len(calls[c].log) = 1
    /\ LastOf(messages).content = <<"a">>

\* ----------------------------------------------------- relay's last claims

\* Some line of the body is not a JSON document.
HasMalformed(bytes) ==
  \E i \in DOMAIN Split(Decode(<<>>, bytes).out) :
    LET line == Split(Decode(<<>>, bytes).out)[i]
    IN Trim(line) # <<>> /\ ~ParseUpstream(line).ok

\* What the documents enqueue, one after the other.
RECURSIVE EnqueuedAll(_)
EnqueuedAll(docs) ==
  IF docs = <<>> THEN <<>> ELSE Enqueued(Head(docs)) \o EnqueuedAll(Tail(docs))

\* C23: when an upstream body with lines that are not JSON has ended, the
\* relay's body is what the well-formed lines enqueue, in the body's order,
\* followed by done.
C23_MalformedUpstreamLines ==
  \A r \in DOMAIN relay :
    (relay[r].pc = "closed" /\ HasMalformed(relay[r].up.stream)) =>
      Concat(relay[r].out) =
        Concat(EnqueuedAll(DocsOf(relay[r].up.stream)) \o Terminal)

\* A body of a line cut short and a text of a two-byte character has ended,
\* and the relay's delta holds the replacement character.
C23_Witness ==
  \E r \in DOMAIN relay :
    /\ relay[r].pc = "closed"
    /\ HasMalformed(relay[r].up.stream)
    /\ Texts(DocsOf(relay[r].up.stream)) = << <<"eacute">> >>
    /\ DeltaTexts(Concat(relay[r].out)) = << <<REPL>> >>

\* What the relay enqueues when the upstream body arrives in one chunk.
DeliveredInOneChunk(bytes) ==
  LET t == Transform(<<>>, bytes) IN t.out \o Flush(t.buffer)

\* C24: when the upstream body has ended, however it was cut into chunks,
\* the events of the relay's body are those of its delivery in one chunk.
C24_RelayChunkIndependence ==
  \A r \in DOMAIN relay :
    relay[r].pc = "closed" =>
      Emitted(r) = EventsOf(Concat(DeliveredInOneChunk(relay[r].up.stream)))

\* A body of one well-formed document, delivered in more than one chunk, has
\* ended, and the text of its delta is not the text it has when the body
\* comes in one chunk.
C24_Witness ==
  \E r \in DOMAIN relay :
    /\ relay[r].pc = "closed"
    /\ ~HasMalformed(relay[r].up.stream)
    /\ Len(DocsOf(relay[r].up.stream)) = 1
    /\ DeltaTexts(Concat(DeliveredInOneChunk(relay[r].up.stream))) = << <<"eacute">> >>
    /\ DeltaTexts(Concat(relay[r].out)) = << <<REPL>> >>

\* ------------------------------------------------- conversation, continued

\* fetch resolved for call c with a success status and one JSON document
\* that holds an answer.
JsonAnswer(c) ==
  /\ calls[c].pc \in {"text", "done"}
  /\ ~calls[c].res.failed
  /\ ~calls[c].res.ndjson
  /\ calls[c].res.ok
  /\ calls[c].res.bodyKind = "json"
  /\ calls[c].res.data.hasAnswer

\* C25: for a response that is one JSON document with an answer, with the
\* web search on or off, the conversation holds the user's message alone
\* until the body is read, and then the user's message and one model message
\* whose content is the answer and whose sources are the document's list; no
\* placeholder is in the conversation at any time.
C25_NonStreamingAtomic ==
  \A c \in DOMAIN calls :
    JsonAnswer(c) =>
      /\ \A i \in DOMAIN messages : messages[i] # placeholder
      /\ calls[c].pc = "text" => messages = <<UserMessage(calls[c].searchQuery)>>
      /\ calls[c].pc = "done" =>
           /\ ~calls[c].thrown
           /\ messages =
                << UserMessage(calls[c].searchQuery),
                   [role |-> "model", content |-> calls[c].res.data.answer,
                    hasSources |-> TRUE, sources |-> calls[c].res.data.sources,
                    isWebSearch |-> BoolStr(calls[c].useWebSearch)] >>

\* A request made with the web search off was answered with a JSON
\* document, and the answer with its source is in the conversation.
C25_Witness ==
  \E c \in DOMAIN calls :
    /\ JsonAnswer(c)
    /\ calls[c].pc = "done"
    /\ calls[c].useStreaming
    /\ LastOf(messages).content = <<"b">>
    /\ LastOf(messages).sources = <<Source("t1", "u1")>>

\* ------------------------------------------------- the relay under load

\* The responses a request handled alone can get for an upstream body: one
\* per way of cutting the body into chunks.
RECURSIVE AloneFrom(_, _)
AloneFrom(buffer, rest) ==
  IF rest = <<>> THEN {Flush(buffer)}
  ELSE UNION { LET t == Transform(buffer, SubSeq(rest, 1, n))
               IN {t.out \o o : o \in AloneFrom(t.buffer, SubSeq(rest, n + 1, Len(rest)))} :
               n \in 1..Len(rest) }

HandledAlone(bytes) == {Concat(o) : o \in AloneFrom(<<>>, bytes)}

\* A step of one invocation leaves every other invocation as it was.
OwnStateOnly ==
  \A r \in DOMAIN relay :
    (r \in DOMAIN relay' /\ relay'[r] # relay[r]) =>
      \A o \in DOMAIN relay \ {r} : relay'[o] = relay[o]

\* C26: the relay keeps no state between requests; with several streaming
\* requests handled at once and their upstream chunks arriving in any
\* interleaving, a step of one request changes nothing of another (each has
\* its own line buffer), and every finished response is one that the request
\* handled alone produces from its own upstream body.
C26_RelayStateless ==
  /\ [](\A r \in DOMAIN relay :
          relay[r].pc = "closed" => Concat(relay[r].out) \in HandledAlone(relay[r].up.stream))
  /\ [][OwnStateOnly]_vars

\* Two requests with different bodies: the second was pumped to its end and
\* answered while the first was holding a fragment of its line.
C26_Witness ==
  /\ Len(relay) = 2
  /\ relay[1].pc = "pump" /\ relay[1].buffer # <<>> /\ relay[1].out = <<>>
  /\ relay[2].pc = "closed"
  /\ relay[1].up.stream # relay[2].up.stream
  /\ DeltaTexts(Concat(relay[2].out)) = << <<"eacute">> >>

\* --------------------------------------------- conversation and sessions

\* C27: in every reachable state every element of the conversation is a
\* message with role user or model, never an undefined element, also when
\* startNewChat or loadSession runs while the events of a stream are still
\* being applied.
C27_WellFormedConversation ==
  \A i \in DOMAIN messages : messages[i].role \in {"user", "model"}

\* A stream is being read, the conversation was reset under it, and the
\* updater of a delta or done event has run on the empty conversation.
C27_Witness ==
  /\ \E c \in DOMAIN calls : calls[c].pc = "read" /\ calls[c].log # <<>>
  /\ history # <<>>
  /\ messages = <<Undefined>>

\* The conversation was reset while a request was pending.  A pending request
\* has appended its user message, only startNewChat empties a conversation,
\* and no submission is accepted while isLoading.
ResetWhilePending == isLoading /\ messages = <<>>

\* C28: after startNewChat the conversation holds only messages of submissions
\* made after the reset.  No submission is accepted while a request is
\* pending, so a conversation reset under a pending request stays empty until
\* that request has finished, unless a session is loaded: no placeholder,
\* delta or done update, answer or failure message of the request reaches it.
C28_NoCrossSessionLeakage ==
  [][ResetWhilePending =>
       \/ messages' = <<>>
       \/ \E i \in DOMAIN history : messages' = history[i].messages]_vars

\* The conversation was reset while the request was awaiting its response;
\* the new conversation holds the placeholder of that request, filled with
\* the text of its stream.
C28_Witness ==
  /\ \E c \in DOMAIN calls :
        /\ calls[c].pc = "read"
        /\ history # <<>>
        /\ history[1].messages = <<UserMessage(calls[c].searchQuery)>>
  /\ messages = <<[placeholder EXCEPT !.content = <<"a">>]>>

\* C29: in every reachable state in which the retry button is offered (the
\* last message is a model message with isWebSearch not set and no request is
\* pending), the message just before it exists and is a user message.
C29_RetryPrecondition ==
  RetryOffered =>
    /\ Len(messages) >= 2
    /\ messages[Len(messages) - 1].role = "user"

\* The retry button is offered on the failure message of a stream that broke
\* off: the message before it is the partial answer, and the session was
\* never switched.
C29_Witness ==
  /\ RetryOffered
  /\ history = <<>>
  /\ Len(messages) = 3
  /\ messages[2] = [placeholder EXCEPT !.content = <<"a">>]
  /\ IsFallback(messages[3])

\* The step resets a conversation that held messages.
ResetsConversation == messages # <<>> /\ messages' = <<>>

====
